---- MODULE Spec2Model ----
(***************************************************************************)
(* Model of the sticky-notes MCP server: the note repository (durable      *)
(* Azure table with in-memory fallback), the tenant resolver and the       *)
(* HTTP session router.  Every asynchronous function is cut at its real    *)
(* await points (network round trips); the code between two await points   *)
(* runs as one atomic step, as it does on the Node.js event loop.          *)
(***************************************************************************)
EXTENDS Integers, Sequences, FiniteSets, TLC

\* ---------------------------------------------------------------- bounds
MaxCalls == 2      \* function calls in flight at the same time
MaxNotes == 2      \* stickNote calls in one run
MaxClock == 1      \* last value of the millisecond clock
MaxSessions == 2   \* sessions created in one run

\* ------------------------------------------------------------- constants
Undefined == ""                       \* JS undefined / null / '' (all falsy)
Tenants == {"t1", "t2"}               \* userId hints seen in requests
RandomUserId == "user-rnd"            \* `user-${randomUUID().substring(0,8)}`
NewRowKeys == <<"r1", "r2", "r3", "r4">>   \* values randomUUID() can return
RowKeys == {NewRowKeys[i] : i \in 1..MaxNotes}
OldRowKeys == {"o1", "o2"}            \* row keys written by an earlier process
\* all row keys in the order the table service sorts them
AllRowKeys == <<"o1", "r1", "o2", "r2", "r3", "r4">>
AllSessionIds == <<"s1", "s2", "s3", "s4">>
\* names every plain JS object inherits from Object.prototype
ObjectPrototypeKeys == {"constructor"}
\* logical keys the callers use; "r1" is also a row key (legacy lookup by id)
Keys == {"work", "constructor"}
LookupKeys == Keys \cup {"r1"}
\* all property names, in the order of Array.prototype.sort() on strings
KeyOrder == <<"constructor", "o1", "o2", "personal", "r1", "r2", "r3", "r4", "work">>
Texts == {"a", "b"}
\* the keys of a board with two ordinary groups
BoardKeys == Keys \cup {"personal"}

VARIABLES
  currentUserId,  \* let currentUserId
  envUserId,      \* process.env.MCP_USER_ID
  logLevel,       \* process.env.LOG_LEVEL
  storageKey,     \* AZURE_STORAGE_KEY is set
  tableClient,    \* let tableClient: "" (null), "mi" or "key"
  established,    \* ghost: the handle whose createTable succeeded, or ""
  attempts,       \* ghost: number of createTable attempts made
  azureUp,        \* the storage account is reachable
  miOk,           \* the managed identity credential is accepted
  tableExists,    \* the table StickyNotesData exists in the account
  azure,          \* the entities of the table
  memoryNotes,    \* const memoryNotes
  transports,     \* const transports (session id -> transport)
  sessTenant,     \* ghost: the tenant fixed for each session
  router,         \* the transports created, their session ids and dispatches
  storedBy,       \* ghost: row key -> userId resolved by the storing call
  fellBack,       \* ghost: some call has been served by the fallback
  lastAdd,        \* ghost: <<partition, key>> -> the last add that returned
  calls,          \* the function calls in flight
  now             \* Date.now()

vars == <<currentUserId, envUserId, logLevel, storageKey, tableClient, established,
          attempts, azureUp, miOk, tableExists, azure, memoryNotes,
          transports, sessTenant, router, storedBy, fellBack, lastAdd, calls,
          now>>

envVars == <<envUserId, logLevel, storageKey, miOk>>

\* ------------------------------------------------------------- helpers
Max(a, b) == IF a >= b THEN a ELSE b

RECURSIVE IndexIn(_, _)
IndexIn(x, seq) ==
  IF seq = <<>> THEN 0
  ELSE IF Head(seq) = x THEN 1
  ELSE LET r == IndexIn(x, Tail(seq)) IN IF r = 0 THEN 0 ELSE r + 1

RowOrd(id) == IndexIn(id, AllRowKeys)
KeyOrd(k) == IndexIn(k, KeyOrder)

\* a set of table entities as the sequence a query streams them in: Azure
\* returns the entities of a partition ordered by RowKey, and row keys are
\* random, so the order is unrelated to the order of insertion
RECURSIVE ScanOrder(_)
ScanOrder(S) ==
  IF S = {} THEN <<>>
  ELSE LET m == CHOOSE x \in S : \A y \in S : RowOrd(x.rowKey) <= RowOrd(y.rowKey)
       IN <<m>> \o ScanOrder(S \ {m})

\* Array.prototype.sort() on a set of distinct strings
RECURSIVE SortKeys(_)
SortKeys(S) ==
  IF S = {} THEN <<>>
  ELSE LET m == CHOOSE x \in S : \A y \in S : KeyOrd(x) <= KeyOrd(y)
       IN <<m>> \o SortKeys(S \ {m})

\* items.sort((a, b) => b.timestamp - a.timestamp): stable, newest first
RECURSIVE InsertDesc(_, _)
InsertDesc(x, s) ==
  IF s = <<>> THEN <<x>>
  ELSE IF Head(s).timestamp >= x.timestamp THEN <<Head(s)>> \o InsertDesc(x, Tail(s))
  ELSE <<x>> \o s

RECURSIVE SortDescFrom(_, _)
SortDescFrom(items, acc) ==
  IF items = <<>> THEN acc
  ELSE SortDescFrom(Tail(items), InsertDesc(Head(items), acc))

SortDesc(items) == SortDescFrom(items, <<>>)

\* ---------------------------------------------------- tenant resolution
\* getUserIdFromRequest + the assignment in the handlers: a truthy hint
\* overwrites the cached user id
AdoptHint(cur, hint) == IF hint # Undefined THEN hint ELSE cur

\* getUserIdFromRequest: the userId query parameter, else the x-mcp-user-id
\* header, else undefined
getUserIdFromRequest(query, header) ==
  IF query # Undefined THEN query
  ELSE IF header # Undefined THEN header
  ELSE Undefined

\* a slip: the early return of the cached id is missing, so a resolution
\* without MCP_USER_ID draws a new random id, different from the cached one
regenerateUserId(cur) ==
  IF envUserId # Undefined THEN envUserId
  ELSE IF cur = RandomUserId THEN "user-rnd2"
  ELSE RandomUserId

\* getOrCreateUserId: the value it returns and leaves in currentUserId
getOrCreateUserId(cur) ==
  IF cur # Undefined THEN cur
  ELSE IF envUserId # Undefined THEN envUserId
  ELSE RandomUserId

\* a partition key that ignores the tenant (every tenant in one partition)
sharedPartitionKey(userId, cur) == <<"user", "anonymous">>

\* getUserPartitionKey: `user-${userId || autoUserId}`
getUserPartitionKey(userId, cur) ==
  LET autoUserId == getOrCreateUserId(cur)
  IN IF userId # Undefined \/ autoUserId # Undefined
     THEN <<"user", IF userId # Undefined THEN userId ELSE autoUserId>>
     ELSE <<"user", "anonymous">>

\* ------------------------------------------------- in-memory fallback
\* a plain JS object with no own property
EmptyObject == [k \in {} |-> <<>>]

\* obj.hasOwnProperty(k)
HasOwn(obj, k) == k \in DOMAIN obj

\* obj[k] is truthy: an own property (arrays and objects are truthy) or a
\* member inherited from Object.prototype (a function)
Truthy(obj, k) == HasOwn(obj, k) \/ k \in ObjectPrototypeKeys

\* delete obj[k]
DeleteProp(obj, k) == [x \in DOMAIN obj \ {k} |-> obj[x]]

\* a slip: the group is assigned a new array holding the note instead of
\* being pushed to
saveNoteOverwrites(mem, partitionKey, key, text, timestamp, id) ==
  LET m1 == IF HasOwn(mem, partitionKey) THEN mem
            ELSE mem @@ (partitionKey :> EmptyObject)
      note == [id |-> id, text |-> text, timestamp |-> timestamp]
  IN [mem |-> [m1 EXCEPT ![partitionKey] =
                 [k \in DOMAIN @ \cup {key} |-> IF k = key THEN <<note>> ELSE @[k]]],
      threw |-> FALSE]

\* saveNoteInMemory: the map afterwards, and whether .push threw a
\* TypeError because memoryNotes[partitionKey][key] is not an array
\* (a partition key starts with "user-", so it is never an inherited name)
saveNoteInMemory(mem, partitionKey, key, text, timestamp, id) ==
  LET m1 == IF HasOwn(mem, partitionKey) THEN mem
            ELSE mem @@ (partitionKey :> EmptyObject)
      m2 == IF Truthy(m1[partitionKey], key) THEN m1
            ELSE [m1 EXCEPT ![partitionKey] = @ @@ (key :> <<>>)]
      note == [id |-> id, text |-> text, timestamp |-> timestamp]
  IN IF HasOwn(m2[partitionKey], key)
     THEN [mem |-> [m2 EXCEPT ![partitionKey][key] = Append(@, note)],
           threw |-> FALSE]
     ELSE [mem |-> m2, threw |-> TRUE]

\* getLatestNoteFromMemory: <<>> for null, <<note>> otherwise; threw when
\* the inherited member has no .slice
getLatestNoteFromMemory(mem, partitionKey, key) ==
  IF ~HasOwn(mem, partitionKey) THEN [note |-> <<>>, threw |-> FALSE, scan |-> <<>>]
  ELSE IF HasOwn(mem[partitionKey], key)
  THEN LET userNotes == mem[partitionKey][key]
           sorted == SortDesc(userNotes)
       IN IF Len(userNotes) = 0
          THEN [note |-> <<>>, threw |-> FALSE, scan |-> <<>>]
          ELSE [note |-> <<sorted[1]>>, threw |-> FALSE, scan |-> userNotes]
  ELSE IF key \in ObjectPrototypeKeys
  THEN [note |-> <<>>, threw |-> TRUE, scan |-> <<>>]
  ELSE [note |-> <<>>, threw |-> FALSE, scan |-> <<>>]

\* getGroupedFromMemory
getGroupedFromMemory(mem, partitionKey) ==
  LET userNotes == IF HasOwn(mem, partitionKey) THEN mem[partitionKey]
                   ELSE EmptyObject
      ks == SortKeys(DOMAIN userNotes)
  IN [i \in 1..Len(ks) |-> [key |-> ks[i], items |-> SortDesc(userNotes[ks[i]])]]

\* a plausible slip: only the oldest note of the group is removed
removeOldestFromMemory(mem, partitionKey, key) ==
  IF HasOwn(mem, partitionKey) /\ HasOwn(mem[partitionKey], key)
  THEN [mem |-> IF Len(mem[partitionKey][key]) > 1
                THEN [mem EXCEPT ![partitionKey][key] = Tail(@)]
                ELSE [mem EXCEPT ![partitionKey] = DeleteProp(@, key)],
        ok |-> TRUE]
  ELSE [mem |-> mem, ok |-> FALSE]

\* the in-memory branch of removeNote
removeFromMemory(mem, partitionKey, key) ==
  IF HasOwn(mem, partitionKey) /\ Truthy(mem[partitionKey], key)
  THEN [mem |-> [mem EXCEPT ![partitionKey] = DeleteProp(@, key)], ok |-> TRUE]
  ELSE [mem |-> mem, ok |-> FALSE]

\* ------------------------------------------------------ durable table
\* a data operation through the handle succeeds
DataOk(client) ==
  azureUp /\ tableExists /\ (client = "mi" => miOk)

\* createTable through the handle succeeds
CreateOk(client) == azureUp /\ (client = "mi" => miOk)

\* PartitionKey eq pk and (noteKey eq key or rowKey eq key)
MatchKey(az, partitionKey, key) ==
  {e \in az : e.partitionKey = partitionKey /\ (e.noteKey = key \/ e.rowKey = key)}

\* PartitionKey eq pk
MatchPartition(az, partitionKey) == {e \in az : e.partitionKey = partitionKey}

\* the loop of peelNote: keep the first entity, replace it by a strictly
\* newer one
RECURSIVE LatestFrom(_, _)
LatestFrom(latest, entities) ==
  IF entities = <<>> THEN latest
  ELSE LatestFrom(IF Head(entities).timestamp > latest.timestamp
                  THEN Head(entities) ELSE latest, Tail(entities))

ItemOf(e) == [id |-> e.rowKey, text |-> e.text, timestamp |-> e.timestamp]

peelDurable(az, partitionKey, key) ==
  LET entities == ScanOrder(MatchKey(az, partitionKey, key))
  IN IF entities = <<>> THEN [note |-> <<>>, scan |-> <<>>]
     ELSE [note |-> <<ItemOf(LatestFrom(Head(entities), Tail(entities)))>>,
           scan |-> [i \in 1..Len(entities) |-> ItemOf(entities[i])]]

\* entity.noteKey || entity.rowKey
GroupKey(e) == IF e.noteKey # Undefined THEN e.noteKey ELSE e.rowKey

RECURSIVE ItemsOfKey(_, _)
ItemsOfKey(entities, k) ==
  IF entities = <<>> THEN <<>>
  ELSE (IF GroupKey(Head(entities)) = k THEN <<ItemOf(Head(entities))>> ELSE <<>>)
       \o ItemsOfKey(Tail(entities), k)

\* the durable branch of listNotesData; groups is a plain object, so a
\* group key that Object.prototype defines makes .push throw
listDurable(az, partitionKey) ==
  LET entities == ScanOrder(MatchPartition(az, partitionKey))
      gkeys == {GroupKey(entities[i]) : i \in 1..Len(entities)}
      ks == SortKeys(gkeys)
  IN IF gkeys \cap ObjectPrototypeKeys # {}
     THEN [groups |-> <<>>, threw |-> TRUE]
     ELSE [groups |-> [i \in 1..Len(ks) |->
                        [key |-> ks[i], items |-> SortDesc(ItemsOfKey(entities, ks[i]))]],
           threw |-> FALSE]

\* listNoteKeys: groups.map(g => g.key).sort()
KeysOf(groups) == SortKeys({groups[i].key : i \in 1..Len(groups)})

\* --------------------------------------------------- calls in flight
CallIds == 1..MaxCalls

IdleCall ==
  [op |-> "idle", tool |-> "", pc |-> "", sess |-> "", hint |-> "", userId |-> "",
   pk |-> <<>>, key |-> "", text |-> "", ts |-> 0, client |-> "",
   verified |-> FALSE, todo |-> <<>>, found |-> FALSE, keys |-> <<>>,
   count |-> 0, deleted |-> 0, note |-> <<>>, scan |-> <<>>, groups |-> <<>>,
   ok |-> FALSE, threw |-> FALSE, served |-> "", wroteAz |-> FALSE,
   wroteMem |-> FALSE, readMem |-> FALSE, up |-> FALSE, late |-> FALSE,
   pks |-> {}, expect |-> <<>>, held |-> 0]

InFlight(c) == calls[c].op # "idle" /\ calls[c].pc # "done"

\* the records of a partition in memoryNotes, as <<id, logical key>> pairs
MemoryRecords(pk) ==
  IF ~HasOwn(memoryNotes, pk) THEN {}
  ELSE UNION {{<<memoryNotes[pk][k][i].id, k>> : i \in 1..Len(memoryNotes[pk][k])} :
                k \in DOMAIN memoryNotes[pk]}

\* the records of a partition in the table
TableRecords(pk) == {<<e.rowKey, e.noteKey>> : e \in MatchPartition(azure, pk)}

\* the records of a partition in the store that is in service
StoreRecords(pk) == IF azureUp THEN TableRecords(pk) ELSE MemoryRecords(pk)

\* a plausible slip: the cached handle is ignored and every call connects anew
initNeverCached(tc) == FALSE

\* if (tableClient) return tableClient;
initCached(tc) == tc # Undefined

\* the synchronous head of stickNote, peelNote, listNotesData and removeNote:
\* resolve the partition, call initializeAzureStorage, issue the request
Enter(call, op, key, text, cur, tc, est) ==
  LET userId == getOrCreateUserId(cur)
      partitionKey == getUserPartitionKey(userId, userId)
      base == [call EXCEPT !.op = op, !.key = key, !.text = text, !.ts = now,
                 !.userId = userId, !.pk = partitionKey,
                 !.pks = @ \cup {partitionKey},
                 !.todo = <<>>, !.found = FALSE, !.ok = FALSE, !.threw = FALSE,
                 !.served = "", !.wroteAz = FALSE, !.wroteMem = FALSE,
                 !.readMem = FALSE, !.up = azureUp, !.late = fellBack,
                 !.note = <<>>, !.scan = <<>>, !.groups = <<>>,
                 !.expect = IF op = "peel" /\ <<partitionKey, key>> \in DOMAIN lastAdd
                            THEN <<lastAdd[<<partitionKey, key>>]>> ELSE <<>>,
                 !.held = IF op = "remove"
                          THEN Cardinality({r \in StoreRecords(partitionKey) : r[2] = key})
                          ELSE 0]
  IN IF initCached(tc)
     THEN [base EXCEPT !.pc = "op", !.client = tc, !.verified = (est = tc)]
     ELSE [base EXCEPT !.pc = "initMI", !.client = Undefined, !.verified = FALSE]

\* the else / catch branches: the call is served by memoryNotes and ends
MemoryPath(call, mem, id) ==
  CASE call.op = "stick" ->
         LET r == saveNoteInMemory(mem, call.pk, call.key, call.text, call.ts, id)
         IN [call |-> [call EXCEPT !.pc = "done", !.served = "memory",
                         !.threw = r.threw, !.wroteMem = (r.mem # mem),
                         !.readMem = TRUE,
                         !.note = IF r.threw THEN <<>>
                                  ELSE <<[id |-> id, text |-> call.text,
                                          timestamp |-> call.ts]>>],
             mem |-> r.mem]
    [] call.op = "peel" ->
         LET r == getLatestNoteFromMemory(mem, call.pk, call.key)
         IN [call |-> [call EXCEPT !.pc = "done", !.served = "memory",
                         !.threw = r.threw, !.note = r.note, !.scan = r.scan,
                         !.readMem = TRUE],
             mem |-> mem]
    [] call.op = "list" ->
         [call |-> [call EXCEPT !.pc = "done", !.served = "memory",
                      !.groups = getGroupedFromMemory(mem, call.pk),
                      !.readMem = TRUE],
          mem |-> mem]
    [] call.op = "remove" ->
         LET r == removeFromMemory(mem, call.pk, call.key)
             n == IF HasOwn(mem, call.pk) /\ HasOwn(mem[call.pk], call.key)
                  THEN Len(mem[call.pk][call.key]) ELSE 0
         IN [call |-> [call EXCEPT !.pc = "done", !.served = "memory",
                         !.ok = r.ok, !.wroteMem = (r.mem # mem),
                         !.deleted = @ + n, !.readMem = TRUE],
             mem |-> r.mem]

\* a plausible slip: the loop of clearNotes ends after the first key
ContinueFirstKey(call, cur, tc, est) ==
  IF call.tool # "clearNotes" \/ call.pc # "done" THEN call
  ELSE IF call.op = "list" /\ KeysOf(call.groups) # <<>>
  THEN Enter([call EXCEPT !.keys = KeysOf(call.groups)], "remove",
             Head(KeysOf(call.groups)), "", cur, tc, est)
  ELSE [call EXCEPT !.keys = <<>>, !.op = "clear",
          !.count = IF call.op = "remove" /\ call.ok THEN @ + 1 ELSE @]

\* the clearNotes tool handler around the function that has just ended:
\* keys = await listNoteKeys(); for (key of keys) if (await removeNote(key)) count++
Continue(call, cur, tc, est) ==
  IF call.tool # "clearNotes" \/ call.pc # "done" THEN call
  ELSE LET after == IF call.op = "list"
                    THEN [call EXCEPT !.keys = KeysOf(call.groups)]
                    ELSE [call EXCEPT !.keys = Tail(@),
                            !.count = IF call.ok THEN @ + 1 ELSE @]
       IN IF after.keys = <<>>
          THEN [after EXCEPT !.op = "clear"]
          ELSE Enter(after, "remove", Head(after.keys), "", cur, tc, est)

\* -------------------------------------------------------------- state
EmptyMap == [k \in {} |-> Undefined]

Put(f, k, v) == [x \in DOMAIN f \cup {k} |-> IF x = k THEN v ELSE f[x]]

\* no request has been answered yet
NoResponse == [kind |-> "", sid |-> Undefined, status |-> "", arg |-> Undefined]

\* no transport has been created yet.  made: transports created (numbered
\* 1..made); stage, hint, sidOf, connects: per transport, how far its
\* initialization POST has come, the hint of that POST, transport.sessionId
\* and the number of server.connect calls; table: the transports object;
\* issued: session ids sent to a client; closed: session ids whose transport
\* has closed; log: ghost, the messages dispatched, <<session id, transport,
\* kind>>; last: ghost, the answer to the last request; exit, todo: the
\* SIGINT handler has not run ("no"), is closing the sessions of todo
\* ("closing"), or has called process.exit ("exited")
NoTransport ==
  [made |-> 0, stage |-> EmptyMap, hint |-> EmptyMap, sidOf |-> EmptyMap,
   connects |-> EmptyMap, table |-> EmptyMap, issued |-> {}, closed |-> {},
   log |-> {}, last |-> NoResponse, exit |-> "no", todo |-> <<>>]

\* a plausible slip: the transport is stored only once the response is sent
registersWhenResponded(stage) == stage = "responded"

\* onsessioninitialized stores the transport when the session is initialized,
\* inside handleRequest, before the message is passed on
registersWhen(stage) == stage = "initialized"

\* transport h, created for a POST with the given hint, has run its whole
\* initialization under session id sid
Registered(r, h, sid, hint) ==
  [r EXCEPT !.made = h,
            !.stage = Put(@, h, "responded"), !.hint = Put(@, h, hint),
            !.sidOf = Put(@, h, sid), !.connects = Put(@, h, 1),
            !.table = Put(@, sid, h), !.issued = @ \cup {sid},
            !.log = @ \cup {<<sid, h, "initialize">>}]

\* the process right after start-up; one session has been initialised
\* without a userId hint when withSession holds
Fresh(withSession) ==
  /\ currentUserId = Undefined
  /\ logLevel = Undefined
  /\ tableClient = Undefined
  /\ established = Undefined
  /\ attempts = 0
  /\ memoryNotes = EmptyObject
  /\ transports = IF withSession THEN {"s1"} ELSE {}
  /\ sessTenant = IF withSession THEN Put(EmptyMap, "s1", Undefined) ELSE EmptyMap
  /\ router = IF withSession THEN Registered(NoTransport, 1, "s1", Undefined)
              ELSE NoTransport
  /\ fellBack = FALSE
  /\ lastAdd = EmptyMap
  /\ calls = [c \in CallIds |-> IdleCall]
  /\ now = 0

\* the call in slot c moves to call1 with the stores as given; the tool
\* handler around it continues in the same step
Commit(c, call1, mem1, az1, tc1, att1, est1, id) ==
  LET final == Continue(call1, currentUserId, tc1, est1)
      stored == call1.op = "stick" /\ call1.pc = "done" /\ ~call1.threw
      dropped == {<<e.partitionKey, e.noteKey>> : e \in azure \ az1}
                 \cup (IF call1.op = "remove" /\ call1.pc = "done"
                       THEN {<<call1.pk, call1.key>>} ELSE {})
      kept == [x \in DOMAIN lastAdd \ dropped |-> lastAdd[x]]
  IN /\ calls' = [calls EXCEPT ![c] = final]
     /\ memoryNotes' = mem1
     /\ azure' = az1
     /\ tableClient' = IF final.pc = "initMI" THEN "mi" ELSE tc1
     /\ attempts' = IF final.pc = "initMI" THEN att1 + 1 ELSE att1
     /\ established' = est1
     /\ fellBack' = (fellBack \/ (call1.pc = "done" /\ call1.served = "memory"))
     /\ storedBy' = IF stored THEN Put(storedBy, id, call1.userId) ELSE storedBy
     /\ lastAdd' = IF stored
                   THEN Put(kept, <<call1.pk, call1.key>>,
                            [text |-> call1.text, id |-> id,
                             n |-> Cardinality(DOMAIN storedBy) + 1])
                   ELSE kept

\* randomUUID() for the note being stored
IdChoices(call) ==
  IF call.op = "stick" THEN RowKeys \ DOMAIN storedBy ELSE {Undefined}

FreeSlot(c) ==
  /\ calls[c].op = "idle"
  /\ \A d \in CallIds : d < c => calls[d].op # "idle"

\* ------------------------------------------------------------ actions
\* a POST of session s carrying the userId hint and a tool call: the handler
\* adopts the hint, finds the transport and the tool runs up to its first await
Begin(c, s, hint, tool, op, key, text) ==
  /\ s \in transports
  /\ FreeSlot(c)
  /\ LET cur == AdoptHint(currentUserId, hint)
         call == Enter([IdleCall EXCEPT !.tool = tool, !.sess = s, !.hint = hint],
                       op, key, text, cur, tableClient, established)
     IN /\ currentUserId' = call.userId
        /\ tableClient' = IF call.pc = "initMI" THEN "mi" ELSE tableClient
        /\ attempts' = IF call.pc = "initMI" THEN attempts + 1 ELSE attempts
        /\ sessTenant' = IF sessTenant[s] = Undefined
                         THEN [sessTenant EXCEPT ![s] = call.userId]
                         ELSE sessTenant
        /\ calls' = [calls EXCEPT ![c] = call]
  /\ UNCHANGED <<envVars, established, azureUp, tableExists, azure, memoryNotes,
                 transports, router,
                 storedBy, fellBack, lastAdd, now>>

StickNote(c, s, hint, key, text) ==
  /\ Cardinality(RowKeys \cap DOMAIN storedBy)
       + Cardinality({d \in CallIds : calls[d].op = "stick" /\ calls[d].pc # "done"})
       < MaxNotes
  /\ Begin(c, s, hint, "stickNote", "stick", key, text)

PeelNote(c, s, hint, key) == Begin(c, s, hint, "peelNote", "peel", key, "")

ListNotesData(c, s, hint) == Begin(c, s, hint, "listNotesData", "list", "", "")

RemoveNote(c, s, hint, key) == Begin(c, s, hint, "removeNote", "remove", key, "")

ClearNotes(c, s, hint) == Begin(c, s, hint, "clearNotes", "list", "", "")

\* await tableClient.createTable() returns or throws inside
\* initializeAzureStorage
InitReturn(c) ==
  /\ calls[c].op # "idle"
  /\ calls[c].pc \in {"initMI", "initKey"}
  /\ LET call == calls[c]
         handle == IF call.pc = "initMI" THEN "mi" ELSE "key"
     IN IF CreateOk(handle)
        THEN /\ tableExists' = TRUE
             /\ Commit(c, [call EXCEPT !.pc = "op", !.client = tableClient,
                                       !.verified = (tableClient = handle)],
                       memoryNotes, azure, tableClient, attempts, handle, Undefined)
        ELSE IF call.pc = "initMI" /\ storageKey
        THEN /\ Commit(c, [call EXCEPT !.pc = "initKey"], memoryNotes, azure,
                       "key", attempts + 1, established, Undefined)
             /\ UNCHANGED tableExists
        ELSE /\ \E id \in IdChoices(call) :
                  LET r == MemoryPath(call, memoryNotes, id)
                  IN Commit(c, r.call, r.mem, azure, tableClient, attempts,
                            established, id)
             /\ UNCHANGED tableExists
  /\ UNCHANGED <<currentUserId, envVars, azureUp, transports, router,
                 sessTenant, now>>

\* the first durable request of the function returns or throws
OpReturn(c) ==
  /\ calls[c].op # "idle"
  /\ calls[c].pc = "op"
  /\ LET call == calls[c]
     IN \E id \in IdChoices(call) :
          LET fallback == MemoryPath(call, memoryNotes, id)
              entity == [partitionKey |-> call.pk, rowKey |-> id,
                         noteKey |-> call.key, text |-> call.text,
                         timestamp |-> call.ts]
              peeled == peelDurable(azure, call.pk, call.key)
              listed == listDurable(azure, call.pk)
          IN IF ~DataOk(call.client)
             THEN Commit(c, fallback.call, fallback.mem, azure, tableClient,
                         attempts, established, id)
             ELSE CASE call.op = "stick" ->
                         Commit(c, [call EXCEPT !.pc = "done", !.served = "durable",
                                      !.wroteAz = TRUE,
                                      !.note = <<ItemOf(entity)>>],
                                memoryNotes, azure \cup {entity}, tableClient,
                                attempts, established, id)
                    [] call.op = "peel" ->
                         Commit(c, [call EXCEPT !.pc = "done", !.served = "durable",
                                      !.note = peeled.note, !.scan = peeled.scan],
                                memoryNotes, azure, tableClient, attempts,
                                established, id)
                    [] call.op = "list" ->
                         IF listed.threw
                         THEN Commit(c, fallback.call, fallback.mem, azure,
                                     tableClient, attempts, established, id)
                         ELSE Commit(c, [call EXCEPT !.pc = "done",
                                           !.served = "durable",
                                           !.groups = listed.groups],
                                     memoryNotes, azure, tableClient, attempts,
                                     established, id)
                    [] call.op = "remove" ->
                         Commit(c, [call EXCEPT !.pc = "scan",
                                      !.todo = ScanOrder(MatchKey(azure, call.pk, call.key))],
                                memoryNotes, azure, tableClient, attempts,
                                established, id)
  /\ UNCHANGED <<currentUserId, envVars, azureUp, tableExists, transports, router,
                 sessTenant, now>>

\* one turn of `for await (const entity of entities)` in removeNote: the
\* loop ends, the iterator yields an entity and deleteEntity is awaited
\* (its error is caught and logged), or fetching the next page throws
ScanStep(c) ==
  /\ calls[c].op = "remove"
  /\ calls[c].pc = "scan"
  /\ LET call == calls[c]
         e == Head(call.todo)
         fallback == MemoryPath(call, memoryNotes, Undefined)
     IN IF call.todo = <<>>
        THEN Commit(c, [call EXCEPT !.pc = "done", !.served = "durable",
                                    !.ok = call.found],
                    memoryNotes, azure, tableClient, attempts, established,
                    Undefined)
        ELSE IF DataOk(call.client)
        THEN Commit(c, [call EXCEPT !.todo = Tail(@), !.found = TRUE,
                          !.wroteAz = (@ \/ e \in azure),
                          !.deleted = IF e \in azure THEN @ + 1 ELSE @],
                    memoryNotes, azure \ {e}, tableClient, attempts,
                    established, Undefined)
        ELSE \/ Commit(c, [call EXCEPT !.todo = Tail(@), !.found = TRUE],
                       memoryNotes, azure, tableClient, attempts, established,
                       Undefined)
             \/ Commit(c, fallback.call, fallback.mem, azure, tableClient,
                       attempts, established, Undefined)
  /\ UNCHANGED <<currentUserId, envVars, azureUp, tableExists, transports, router,
                 sessTenant, now>>

\* the result has been sent: the slot is free again
Return(c) ==
  /\ calls[c].pc = "done"
  /\ calls' = [calls EXCEPT ![c] = IdleCall]
  /\ UNCHANGED <<currentUserId, envVars, tableClient, established, attempts,
                 azureUp, tableExists, azure, memoryNotes, transports, router,
                 sessTenant, storedBy, fellBack, lastAdd, now>>

\* an initialization POST without session id: the handler adopts the hint
\* and registers a new transport under a fresh session id
PostInitialize(hint) ==
  /\ router.made < MaxSessions
  /\ LET sid == AllSessionIds[Cardinality(DOMAIN sessTenant) + 1]
     IN /\ transports' = transports \cup {sid}
        /\ sessTenant' = Put(sessTenant, sid, hint)
        /\ router' = Registered(router, router.made + 1, sid, hint)
  /\ currentUserId' = AdoptHint(currentUserId, hint)
  /\ UNCHANGED <<envVars, tableClient, established, attempts, azureUp,
                 tableExists, azure, memoryNotes, storedBy, fellBack, lastAdd,
                 calls, now>>

\* the process has not exited
Alive == router.exit # "exited"

\* `sessionId && transports[sessionId]` on the plain object transports: true
\* for a stored session id and for a name inherited from Object.prototype
Lookup(table, s) == s # Undefined /\ Truthy(table, s)

\* the handler's answer to a request: its kind, the mcp-session-id header,
\* the outcome ("ok": handed to the transport; "400", "500": the HTTP error
\* the handler sends; "result", "invalid": the JSON-RPC result or the
\* invalid-params error of the direct logging handler) and, for a logging
\* operation, its method and level
Answer(r, kind, s, status, arg) ==
  [r EXCEPT !.last = [kind |-> kind, sid |-> s, status |-> status, arg |-> arg]]

Response(r, kind, s, status) == Answer(r, kind, s, status, Undefined)

\* transport.handleRequest(...) on what the lookup found: a stored transport
\* takes the request; an inherited member has no handleRequest and the call
\* throws TypeError
Handled(table, s) == HasOwn(table, s)

\* a GET for the SSE stream of session s: the handler adopts the hint, then
\* answers 400 when the lookup fails, else hands the request to the
\* transport; nothing catches a throw of handleRequest, so the handler's
\* promise rejects (the framework answers 500 or not at all)
McpGet(s, hint) ==
  /\ Alive
  /\ currentUserId' = AdoptHint(currentUserId, hint)
  /\ \E uncaught \in {"500", "none"} :
       router' = Response(router, "get", s,
                          IF ~Lookup(router.table, s) THEN "400"
                          ELSE IF Handled(router.table, s) THEN "ok"
                          ELSE uncaught)
  /\ UNCHANGED <<envVars, tableClient, established, attempts, azureUp,
                 tableExists, azure, memoryNotes, transports, sessTenant,
                 storedBy, fellBack, lastAdd, calls, now>>

\* a POST without session id whose body is an initialize request: the handler
\* adopts the hint, creates a transport and awaits server.connect(transport)
InitPost(hint) ==
  /\ Alive
  /\ router.made < MaxSessions
  /\ currentUserId' = AdoptHint(currentUserId, hint)
  /\ LET h == router.made + 1
     IN router' = Response([router EXCEPT !.made = h,
                                          !.stage = Put(@, h, "connecting"),
                                          !.hint = Put(@, h, hint),
                                          !.connects = Put(@, h, 1)],
                           "init", Undefined, "ok")
  /\ UNCHANGED <<envVars, tableClient, established, attempts, azureUp,
                 tableExists, azure, memoryNotes, transports, sessTenant,
                 storedBy, fellBack, lastAdd, calls, now>>

\* server.connect has returned and transport.handleRequest runs: the
\* transport generates its session id, calls onsessioninitialized and passes
\* the initialize message on to the server
InitHandle(h) ==
  /\ Alive
  /\ h \in DOMAIN router.stage
  /\ router.stage[h] = "connecting"
  /\ LET sid == AllSessionIds[Cardinality(DOMAIN sessTenant) + 1]
         table1 == IF registersWhen("initialized") THEN Put(router.table, sid, h)
                   ELSE router.table
     IN /\ router' = [router EXCEPT !.stage[h] = "initialized",
                                    !.sidOf = Put(@, h, sid),
                                    !.table = table1,
                                    !.log = @ \cup {<<sid, h, "initialize">>}]
        /\ transports' = DOMAIN table1
        /\ sessTenant' = Put(sessTenant, sid, router.hint[h])
  /\ UNCHANGED <<currentUserId, envVars, tableClient, established, attempts,
                 azureUp, tableExists, azure, memoryNotes, storedBy, fellBack,
                 lastAdd, calls, now>>

\* the server has answered the initialize message: the response, with the
\* session id in its header, is sent to the client
InitRespond(h) ==
  /\ Alive
  /\ h \in DOMAIN router.stage
  /\ router.stage[h] = "initialized"
  /\ LET sid == router.sidOf[h]
         table1 == IF registersWhen("responded") /\ sid \notin router.closed
                   THEN Put(router.table, sid, h) ELSE router.table
     IN /\ router' = [router EXCEPT !.stage[h] = "responded",
                                    !.table = table1,
                                    !.issued = @ \cup {sid}]
        /\ transports' = DOMAIN table1
  /\ UNCHANGED <<currentUserId, envVars, tableClient, established, attempts,
                 azureUp, tableExists, azure, memoryNotes, sessTenant, storedBy,
                 fellBack, lastAdd, calls, now>>

\* a POST whose mcp-session-id header is s (Undefined: no header) and whose
\* body is an initialize request when init holds, else another message that
\* is not a logging operation (a tool call that reaches its tool is Begin),
\* and that does not make a new transport: the handler adopts the hint, then hands the message to
\* transports[s] when the lookup succeeds, else answers 400; a throw of
\* handleRequest is caught and answered 500
PostRequest(s, hint, init) ==
  /\ Alive
  /\ ~(init /\ s = Undefined)
  /\ currentUserId' = AdoptHint(currentUserId, hint)
  /\ LET kind == IF init THEN "init" ELSE "post"
     IN router' =
          IF ~Lookup(router.table, s) THEN Response(router, kind, s, "400")
          ELSE IF Handled(router.table, s)
          THEN Response([router EXCEPT !.log = @ \cup {<<s, router.table[s], "request">>}],
                        kind, s, "ok")
          ELSE Response(router, kind, s, "500")
  /\ UNCHANGED <<envVars, tableClient, established, attempts, azureUp,
                 tableExists, azure, memoryNotes, transports, sessTenant,
                 storedBy, fellBack, lastAdd, calls, now>>

\* the levels a logging/setLevel request may carry: a valid one, the same in
\* upper case, an unknown one, none, and an object that String() cannot
\* convert (such as {"toString": 1}: String throws TypeError)
Unprintable == "{toString:1}"
Levels == {"debug", "DEBUG", "loud", Undefined, Unprintable}
ValidLevels == {"error", "warn", "info", "debug", "trace", "off"}
LoggingMethods == {"logging/setLevel", "logging/getLevel"}

\* String.prototype.toLowerCase on the strings above
toLowerCase(x) == IF x = "DEBUG" THEN "debug" ELSE x

\* `String(req.body.params?.level || '').toLowerCase()`
requested(level) == toLowerCase(level)

\* a POST whose method is logging/setLevel or logging/getLevel, with any
\* session id header: the direct handler answers it at once; when String()
\* throws, the catch falls through to the normal handling of the request
\* (hint adoption, session lookup, transport or 400)
PostLogging(s, hint, method, level) ==
  /\ Alive
  /\ IF method = "logging/setLevel" /\ level = Unprintable
     THEN /\ currentUserId' = AdoptHint(currentUserId, hint)
          /\ logLevel' = logLevel
          /\ router' =
               IF ~Lookup(router.table, s)
               THEN Answer(router, "log", s, "400", <<method, level>>)
               ELSE IF Handled(router.table, s)
               THEN Answer([router EXCEPT !.log = @ \cup {<<s, router.table[s], "request">>}],
                           "log", s, "ok", <<method, level>>)
               ELSE Answer(router, "log", s, "500", <<method, level>>)
     ELSE IF method = "logging/setLevel"
     THEN LET ok == requested(level) # Undefined /\ requested(level) \in ValidLevels
          IN /\ logLevel' = IF ok THEN requested(level) ELSE logLevel
             /\ router' = Answer(router, "log", s, IF ok THEN "result" ELSE "invalid",
                                 <<method, level>>)
             /\ UNCHANGED currentUserId
     ELSE /\ router' = Answer(router, "log", s, "result", <<method, Undefined>>)
          /\ UNCHANGED <<currentUserId, logLevel>>
  /\ UNCHANGED <<envUserId, storageKey, miOk, tableClient, established, attempts,
                 azureUp, tableExists, azure, memoryNotes, transports, sessTenant,
                 storedBy, fellBack, lastAdd, calls, now>>

\* a slip: the handler logs the close and forgets the delete
oncloseKeepsId(r, sid) ==
  IF sid # Undefined /\ Truthy(r.table, sid)
  THEN [r EXCEPT !.closed = @ \cup {sid}]
  ELSE r

\* transport.onclose of the transport whose session id is sid: the entry is
\* deleted when it is there
onclose(r, sid) ==
  IF sid # Undefined /\ Truthy(r.table, sid)
  THEN [r EXCEPT !.table = DeleteProp(@, sid), !.closed = @ \cup {sid}]
  ELSE r

\* a DELETE carrying session id s: the handler adopts the hint, then answers
\* 400 when the lookup fails, else the transport handles the request,
\* closes, and its onclose handler deletes transports[s]; a throw of
\* handleRequest is caught and answered 500
McpDelete(s, hint) ==
  /\ Alive
  /\ currentUserId' = AdoptHint(currentUserId, hint)
  /\ LET r1 == IF Lookup(router.table, s) /\ Handled(router.table, s)
               THEN onclose(router, s) ELSE router
     IN /\ router' = Response(r1, "delete", s,
                              IF ~Lookup(router.table, s) THEN "400"
                              ELSE IF Handled(router.table, s) THEN "ok"
                              ELSE "500")
        /\ transports' = DOMAIN r1.table
  /\ UNCHANGED <<envVars, tableClient, established, attempts, azureUp,
                 tableExists, azure, memoryNotes, sessTenant, storedBy,
                 fellBack, lastAdd, calls, now>>

\* `for (const sessionId in transports)`: the own keys, in insertion order
ForIn(table) == SelectSeq(AllSessionIds, LAMBDA x : HasOwn(table, x))

\* SIGINT arrives: the handler starts its loop over the session ids of the
\* table, and calls process.exit(0) at once when there is none
Sigint ==
  /\ router.exit = "no"
  /\ router' = [router EXCEPT !.todo = ForIn(router.table),
                              !.exit = IF ForIn(router.table) = <<>>
                                       THEN "exited" ELSE "closing"]
  /\ UNCHANGED <<currentUserId, envVars, tableClient, established, attempts,
                 azureUp, tableExists, azure, memoryNotes, transports,
                 sessTenant, storedBy, fellBack, lastAdd, calls, now>>

\* one turn of the SIGINT loop: a key deleted in the meantime is skipped;
\* else `await transports[sessionId].close()` runs onclose, which deletes the
\* entry, and `delete transports[sessionId]` deletes it once more; after the
\* last key the handler calls process.exit(0)
SigintClose ==
  /\ router.exit = "closing"
  /\ LET sid == Head(router.todo)
         r1 == IF HasOwn(router.table, sid) THEN onclose(router, sid) ELSE router
         r2 == [r1 EXCEPT !.table = DeleteProp(@, sid), !.todo = Tail(@)]
     IN /\ router' = [r2 EXCEPT !.exit = IF r2.todo = <<>> THEN "exited" ELSE "closing"]
        /\ transports' = DOMAIN r2.table
  /\ UNCHANGED <<currentUserId, envVars, tableClient, established, attempts,
                 azureUp, tableExists, azure, memoryNotes, sessTenant, storedBy,
                 fellBack, lastAdd, calls, now>>

\* the millisecond clock advances
Tick ==
  /\ now < MaxClock
  /\ now' = now + 1
  /\ UNCHANGED <<currentUserId, envVars, tableClient, established, attempts,
                 azureUp, tableExists, azure, memoryNotes, transports, router,
                 sessTenant, storedBy, fellBack, lastAdd, calls>>

\* the storage account becomes unreachable
AzureDown ==
  /\ azureUp
  /\ azureUp' = FALSE
  /\ calls' = [c \in CallIds |->
                IF InFlight(c) THEN [calls[c] EXCEPT !.up = FALSE] ELSE calls[c]]
  /\ UNCHANGED <<currentUserId, envVars, tableClient, established, attempts,
                 tableExists, azure, memoryNotes, transports, router,
                 sessTenant,
                 storedBy, fellBack, lastAdd, now>>

\* the storage account is reachable again
AzureBack ==
  /\ ~azureUp
  /\ azureUp' = TRUE
  /\ UNCHANGED <<currentUserId, envVars, tableClient, established, attempts,
                 tableExists, azure, memoryNotes, transports, router,
                 sessTenant,
                 storedBy, fellBack, lastAdd, calls, now>>

Hints == Tenants \cup {Undefined}

\* ------------------------------------------------------ specifications
\* Failover: one tenant, one key; the account, the credentials and the table
\* are in any state and the account comes and goes while calls overlap
InitFailover ==
  /\ Fresh(TRUE)
  /\ envUserId = Undefined
  /\ storageKey \in BOOLEAN
  /\ azureUp \in BOOLEAN
  /\ miOk \in BOOLEAN
  /\ tableExists \in BOOLEAN
  /\ azure = {}
  /\ storedBy = EmptyMap

NextFailover ==
  \/ \E c \in CallIds : StickNote(c, "s1", Undefined, "work", "a")
  \/ \E c \in CallIds : PeelNote(c, "s1", Undefined, "work")
  \/ \E c \in CallIds : InitReturn(c)
  \/ \E c \in CallIds : OpReturn(c)
  \/ \E c \in CallIds : Return(c)
  \/ AzureDown
  \/ AzureBack

SpecFailover == InitFailover /\ [][NextFailover]_vars

\* Down: the storage account is unreachable for the whole run, so every call
\* is served by memoryNotes; one tenant, overlapping calls, a running clock
InitDown ==
  /\ Fresh(TRUE)
  /\ envUserId = Undefined
  /\ storageKey \in BOOLEAN
  /\ azureUp = FALSE
  /\ miOk = TRUE
  /\ tableExists = TRUE
  /\ azure = {}
  /\ storedBy = EmptyMap

NextDown ==
  \/ \E c \in CallIds, key \in Keys, text \in Texts :
       StickNote(c, "s1", Undefined, key, text)
  \/ \E c \in CallIds, key \in Keys : PeelNote(c, "s1", Undefined, key)
  \/ \E c \in CallIds : InitReturn(c)
  \/ \E c \in CallIds : OpReturn(c)
  \/ \E c \in CallIds : Return(c)
  \/ Tick

SpecDown == InitDown /\ [][NextDown]_vars

\* Tenant: sessions of several tenants share the process; requests carry
\* userId hints or none; the account is reachable or not for the whole run
InitTenant ==
  /\ Fresh(FALSE)
  /\ envUserId = Undefined
  /\ storageKey = FALSE
  /\ azureUp \in BOOLEAN
  /\ miOk = TRUE
  /\ tableExists = TRUE
  /\ azure = {}
  /\ storedBy = EmptyMap

NextTenant ==
  \/ \E hint \in Hints : PostInitialize(hint)
  \/ \E s \in transports, hint \in Hints : StickNote(1, s, hint, "work", "a")
  \/ \E s \in transports, hint \in Hints : PeelNote(1, s, hint, "work")
  \/ \E s \in transports, hint \in Hints : ListNotesData(1, s, hint)
  \/ \E s \in transports, hint \in Hints : RemoveNote(1, s, hint, "work")
  \/ \E s \in transports, hint \in Hints : ClearNotes(1, s, hint)
  \/ InitReturn(1)
  \/ OpReturn(1)
  \/ ScanStep(1)
  \/ Return(1)

SpecTenant == InitTenant /\ [][NextTenant]_vars

\* Remove: the tenant is pinned by MCP_USER_ID and the table already holds two
\* notes of that tenant under "work", written by an earlier process; the
\* account comes and goes
OldNote(id) ==
  [partitionKey |-> <<"user", "env">>, rowKey |-> id, noteKey |-> "work",
   text |-> "a", timestamp |-> 0]

InitRemove ==
  /\ Fresh(TRUE)
  /\ envUserId = "env"
  /\ storageKey = FALSE
  /\ azureUp \in BOOLEAN
  /\ miOk = TRUE
  /\ tableExists = TRUE
  /\ azure = {OldNote(id) : id \in OldRowKeys}
  /\ storedBy = [id \in OldRowKeys |-> "env"]

NextRemove ==
  \/ StickNote(1, "s1", Undefined, "work", "a")
  \/ RemoveNote(1, "s1", Undefined, "work")
  \/ InitReturn(1)
  \/ OpReturn(1)
  \/ ScanStep(1)
  \/ Return(1)
  \/ AzureDown
  \/ AzureBack

SpecRemove == InitRemove /\ [][NextRemove]_vars

\* Board: one session without hint issues its calls one after the other; the
\* account is reachable for the whole run or unreachable for the whole run
InitBoard ==
  /\ Fresh(TRUE)
  /\ envUserId = Undefined
  /\ storageKey = FALSE
  /\ azureUp \in BOOLEAN
  /\ miOk = TRUE
  /\ tableExists = TRUE
  /\ azure = {}
  /\ storedBy = EmptyMap

NextBoard ==
  \/ \E key \in BoardKeys, text \in Texts : StickNote(1, "s1", Undefined, key, text)
  \/ \E key \in BoardKeys : PeelNote(1, "s1", Undefined, key)
  \/ ListNotesData(1, "s1", Undefined)
  \/ \E key \in BoardKeys \cup {"r1"} : RemoveNote(1, "s1", Undefined, key)
  \/ ClearNotes(1, "s1", Undefined)
  \/ InitReturn(1)
  \/ OpReturn(1)
  \/ ScanStep(1)
  \/ Return(1)
  \/ Tick

SpecBoard == InitBoard /\ [][NextBoard]_vars

\* Router: clients open sessions, send requests under the session ids they
\* were given or under an id no session has, and close sessions
SessionIds == {AllSessionIds[i] : i \in 1..MaxSessions} \cup {"unknown"}
\* the values of the mcp-session-id header: a session id, a name every
\* object inherits, or no header
SessionHeaders == SessionIds \cup ObjectPrototypeKeys \cup {Undefined}

InitRouter ==
  /\ Fresh(FALSE)
  /\ envUserId = Undefined
  /\ storageKey = FALSE
  /\ azureUp = FALSE
  /\ miOk = TRUE
  /\ tableExists = TRUE
  /\ azure = {}
  /\ storedBy = EmptyMap

\* the userId hints of the requests: none, or one tenant
RouterHints == {Undefined, "t1"}

NextRouter ==
  \/ \E hint \in RouterHints : InitPost(hint)
  \/ \E h \in 1..MaxSessions : InitHandle(h)
  \/ \E h \in 1..MaxSessions : InitRespond(h)
  \/ \E s \in SessionHeaders, hint \in RouterHints, init \in BOOLEAN :
       PostRequest(s, hint, init)
  \/ \E s \in SessionHeaders, hint \in RouterHints : McpGet(s, hint)
  \/ \E s \in SessionHeaders, hint \in RouterHints : McpDelete(s, hint)
  \/ \E s \in SessionHeaders : PostLogging(s, Undefined, "logging/getLevel", Undefined)
  \/ Sigint
  \/ SigintClose

SpecRouter == InitRouter /\ [][NextRouter]_vars

\* Resolve: one session sends tool calls one after the other, each with or
\* without a userId query parameter and an x-mcp-user-id header; MCP_USER_ID
\* is set or not; the account is unreachable
InitResolve ==
  /\ Fresh(TRUE)
  /\ envUserId \in {Undefined, "env"}
  /\ storageKey = FALSE
  /\ azureUp = FALSE
  /\ miOk = TRUE
  /\ tableExists = TRUE
  /\ azure = {}
  /\ storedBy = EmptyMap

NextResolve ==
  \/ \E query \in Hints, header \in Hints :
       StickNote(1, "s1", getUserIdFromRequest(query, header), "work", "a")
  \/ \E query \in Hints, header \in Hints :
       PeelNote(1, "s1", getUserIdFromRequest(query, header), "work")
  \/ InitReturn(1)
  \/ OpReturn(1)
  \/ Return(1)

SpecResolve == InitResolve /\ [][NextResolve]_vars

\* Once: no request carries a userId hint; two sessions send every kind of
\* tool call; MCP_USER_ID is set or not and the account is reachable or not
\* for the whole run
InitOnce ==
  /\ Fresh(TRUE)
  /\ envUserId \in {Undefined, "env"}
  /\ storageKey = FALSE
  /\ azureUp \in BOOLEAN
  /\ miOk = TRUE
  /\ tableExists = TRUE
  /\ azure = {}
  /\ storedBy = EmptyMap

NextOnce ==
  \/ PostInitialize(Undefined)
  \/ \E s \in transports : StickNote(1, s, Undefined, "work", "a")
  \/ \E s \in transports : PeelNote(1, s, Undefined, "work")
  \/ \E s \in transports : ListNotesData(1, s, Undefined)
  \/ \E s \in transports : RemoveNote(1, s, Undefined, "work")
  \/ \E s \in transports : ClearNotes(1, s, Undefined)
  \/ InitReturn(1)
  \/ OpReturn(1)
  \/ ScanStep(1)
  \/ Return(1)

SpecOnce == InitOnce /\ [][NextOnce]_vars

\* Overlap: the account is unreachable for the whole run, so every call is
\* served by memoryNotes; adds, gets, lists and removes of one tenant overlap
InitOverlap ==
  /\ Fresh(TRUE)
  /\ envUserId = Undefined
  /\ storageKey = FALSE
  /\ azureUp = FALSE
  /\ miOk = TRUE
  /\ tableExists = TRUE
  /\ azure = {}
  /\ storedBy = EmptyMap

NextOverlap ==
  \/ \E c \in CallIds, key \in Keys : StickNote(c, "s1", Undefined, key, "a")
  \/ \E c \in CallIds : PeelNote(c, "s1", Undefined, "work")
  \/ \E c \in CallIds : ListNotesData(c, "s1", Undefined)
  \/ \E c \in CallIds : RemoveNote(c, "s1", Undefined, "work")
  \/ \E c \in CallIds : InitReturn(c)
  \/ \E c \in CallIds : OpReturn(c)
  \/ \E c \in CallIds : Return(c)
  \/ Tick

SpecOverlap == InitOverlap /\ [][NextOverlap]_vars

\* Logging: one session is open; clients send the two logging operations
\* with every kind of level, with and without session id and hint, next to
\* ordinary requests, and the session may be closed
InitLogging ==
  /\ Fresh(TRUE)
  /\ envUserId = Undefined
  /\ storageKey = FALSE
  /\ azureUp = FALSE
  /\ miOk = TRUE
  /\ tableExists = TRUE
  /\ azure = {}
  /\ storedBy = EmptyMap

NextLogging ==
  \/ \E s \in {Undefined, "s1", "unknown"}, hint \in RouterHints,
        method \in LoggingMethods, level \in Levels :
       PostLogging(s, hint, method, level)
  \/ \E s \in {Undefined, "s1"}, hint \in RouterHints : PostRequest(s, hint, FALSE)
  \/ McpDelete("s1", Undefined)

SpecLogging == InitLogging /\ [][NextLogging]_vars

\* -------------------------------------------------------------- claims
Started(c) == calls[c].op # "idle"
Done(c) == calls[c].op # "idle" /\ calls[c].pc = "done"

\* some configured credential is accepted by the storage account
CredentialWorks == miOk \/ storageKey

\* the notes a finished read call returned
RECURSIVE Flatten(_)
Flatten(groups) ==
  IF groups = <<>> THEN <<>> ELSE Head(groups).items \o Flatten(Tail(groups))

Returned(c) == IF calls[c].op = "list" THEN Flatten(calls[c].groups) ELSE calls[c].note

\* C1: partition isolation: every note that peelNote or listNotesData returns
\* to a call whose resolved tenant is t was stored by a call whose resolved
\* tenant was t, in the table and in memoryNotes alike.
C1_PartitionIsolation ==
  \A c \in CallIds :
    (Done(c) /\ calls[c].op \in {"peel", "list"})
      => \A i \in 1..Len(Returned(c)) :
           storedBy[Returned(c)[i].id] = calls[c].userId

\* C1 witness: a read call returned a note of its tenant while a note of
\* another tenant was stored as well
C1_Witness ==
  \E c \in CallIds :
    /\ Done(c) /\ calls[c].op \in {"peel", "list"}
    /\ Returned(c) # <<>>
    /\ \E id \in DOMAIN storedBy : storedBy[id] # calls[c].userId

\* C2: tenant stability: a tool call of a session whose tenant is fixed, sent
\* without a hint of its own, resolves to the tenant fixed for that session.
C2_TenantStable ==
  \A c \in CallIds :
    (Started(c) /\ calls[c].hint = Undefined)
      => calls[c].userId = sessTenant[calls[c].sess]

\* C3: one partition per call: all the storage functions a tool call runs
\* work on the same partition.
C3_OnePartitionPerCall ==
  \A c \in CallIds : Started(c) => Cardinality(calls[c].pks) <= 1

\* C4: failover transparency: with the account unreachable for the whole
\* run, a peelNote(k) that starts after stickNote(k, text) has returned, with
\* no other add to k up to its end, returns text, whatever k already held.
C4_FailoverTransparency ==
  \A c \in CallIds :
    (/\ Done(c) /\ calls[c].op = "peel" /\ ~calls[c].threw
     /\ calls[c].expect # <<>>
     /\ <<calls[c].pk, calls[c].key>> \in DOMAIN lastAdd
     /\ lastAdd[<<calls[c].pk, calls[c].key>>] = calls[c].expect[1])
      => (calls[c].note # <<>> /\ calls[c].note[1].text = calls[c].expect[1].text)

\* C5: addNote always succeeds: whatever the key and the text, and whether the
\* backend fails at connect time or during the write, stickNote ends without
\* raising an error and the note is stored.
C5_StickAlwaysSucceeds ==
  \A c \in CallIds :
    (Done(c) /\ calls[c].op = "stick")
      => (/\ ~calls[c].threw
          /\ calls[c].note # <<>>
          /\ calls[c].note[1].id \in DOMAIN storedBy)

\* the records of a scan that carry its greatest createdAt
Newest(scan) ==
  {i \in 1..Len(scan) : \A j \in 1..Len(scan) : scan[j].timestamp <= scan[i].timestamp}

\* C10: getLatest selection: peelNote(k) returns null exactly when no record
\* matches; otherwise a record with the greatest createdAt, and among several
\* with the greatest createdAt the one encountered last in the scan.
C10_LatestIsLastNewest ==
  \A c \in CallIds :
    (Done(c) /\ calls[c].op = "peel" /\ ~calls[c].threw)
      => LET scan == calls[c].scan
         IN IF scan = <<>> THEN calls[c].note = <<>>
            ELSE /\ calls[c].note # <<>>
                 /\ \E i \in Newest(scan) :
                      /\ \A j \in Newest(scan) : j <= i
                      /\ calls[c].note[1] = scan[i]

\* C6: at most one backend per call: no call of stickNote or removeNote
\* modifies both the table and memoryNotes.
C6_OneBackendPerCall ==
  \A c \in CallIds :
    (Started(c) /\ calls[c].op \in {"stick", "remove"})
      => ~(calls[c].wroteAz /\ calls[c].wroteMem)

\* C7: fallback is per call, never sticky: a call that starts after another
\* call has fallen back, and during which the durable backend works (the
\* account is reachable throughout and a configured credential is valid), is
\* served by the durable store and neither reads nor writes memoryNotes.
C7_FallbackNotSticky ==
  \A c \in CallIds :
    (Done(c) /\ calls[c].late /\ calls[c].up /\ CredentialWorks)
      => (calls[c].served = "durable" /\ ~calls[c].readMem /\ ~calls[c].wroteMem)

\* C8: initializeAzureStorage hands out a handle only if createTable has
\* succeeded on that handle; while no strategy has connected it returns null,
\* on the first call, on later calls and on overlapping calls.
C8_HandleOnlyIfVerified ==
  \A c \in CallIds :
    (Started(c) /\ calls[c].client # Undefined) => calls[c].verified

\* C9: handle caching: once a connection has been established, every step
\* leaves the cached handle in place, makes no further createTable attempt,
\* and every call that starts is given that same handle at once.
C9_HandleCached ==
  [][established # Undefined =>
       /\ tableClient = established
       /\ tableClient' = tableClient
       /\ established' = established
       /\ attempts' = attempts
       /\ \A c \in CallIds :
            (calls[c].op = "idle" /\ calls'[c].op # "idle")
              => (calls'[c].client = established /\ calls'[c].pc = "op")]_vars

\* C9 witness: after the connection was established a durable operation
\* failed (its call fell back), and a later call holds the established handle
C9_Witness ==
  /\ established # Undefined
  /\ \E c, d \in CallIds :
       /\ c # d
       /\ Done(c) /\ calls[c].served = "memory" /\ calls[c].verified
       /\ calls[d].pc = "op" /\ calls[d].late
       /\ calls[d].client = established

\* the places <<i, j>> of a grouped listing
Places(groups) ==
  {<<i, j>> \in (1..Len(groups)) \X (1..MaxNotes + Cardinality(OldRowKeys)) :
     j <= Len(groups[i].items)}

\* C11: grouped listing order: listNotesData returns one entry per logical key
\* present in the partition, the keys ascending, the items of each entry in
\* non-increasing createdAt order, and every record of the partition in
\* exactly one entry (the entry of its logical key).
C11_GroupedListing ==
  \A c \in CallIds :
    (Done(c) /\ calls[c].tool = "listNotesData")
      => LET g == calls[c].groups
             recs == StoreRecords(calls[c].pk)
         IN /\ \A i, j \in 1..Len(g) : i < j => KeyOrd(g[i].key) < KeyOrd(g[j].key)
            /\ \A i \in 1..Len(g) : \A x, y \in 1..Len(g[i].items) :
                 x < y => g[i].items[x].timestamp >= g[i].items[y].timestamp
            /\ {g[i].key : i \in 1..Len(g)} = {r[2] : r \in recs}
            /\ \A r \in recs :
                 Cardinality({p \in Places(g) : g[p[1]].items[p[2]].id = r[1]}) = 1
            /\ \A p \in Places(g) : <<g[p[1]].items[p[2]].id, g[p[1]].key>> \in recs

\* C12: later add is listed first: when the calls run one after the other and
\* a group holds two or more notes, listNotesData lists first the note of the
\* add that returned last.
C12_LaterAddFirst ==
  \A c \in CallIds :
    (Done(c) /\ calls[c].tool = "listNotesData")
      => \A i \in 1..Len(calls[c].groups) :
           LET g == calls[c].groups[i]
               slot == <<calls[c].pk, g.key>>
           IN (Len(g.items) >= 2 /\ slot \in DOMAIN lastAdd)
                => g.items[1].id = lastAdd[slot].id

\* what peelNote(k) returns when it runs alone in the current state
PeelNow(pk, k) ==
  IF DataOk(tableClient) THEN peelDurable(azure, pk, k).note
  ELSE getLatestNoteFromMemory(memoryNotes, pk, k).note

\* what listNotesData returns when it runs alone in the current state
ListNow(pk) ==
  IF DataOk(tableClient) /\ ~listDurable(azure, pk).threw
  THEN listDurable(azure, pk).groups
  ELSE getGroupedFromMemory(memoryNotes, pk)

C14_TruthfulRemoval ==
  \A c \in CallIds :
    (Done(c) /\ calls[c].tool = "removeNote")
      => (calls[c].ok <=> calls[c].deleted >= 1)

\* C15: removal frame: a step of removeNote(k) deletes only records of its own
\* partition whose logical key is k; every other record of the table and of
\* memoryNotes is unchanged by the step.
C15_RemovalFrame ==
  [][\A c \in CallIds :
       (calls[c].op = "remove" /\ calls[c].tool = "removeNote")
         => /\ \A e \in azure \ azure' :
                 e.partitionKey = calls[c].pk /\ e.noteKey = calls[c].key
            /\ azure' \subseteq azure
            /\ \A p \in DOMAIN memoryNotes :
                 /\ p \in DOMAIN memoryNotes'
                 /\ \A k \in DOMAIN memoryNotes[p] :
                      \/ (p = calls[c].pk /\ k = calls[c].key)
                      \/ (/\ k \in DOMAIN memoryNotes'[p]
                          /\ memoryNotes'[p][k] = memoryNotes[p][k])]_vars

\* every record of both stores: <<partition, id, logical key, text, createdAt>>
AllRecords(az, mem) ==
  {<<e.partitionKey, e.rowKey, e.noteKey, e.text, e.timestamp>> : e \in az}
  \cup UNION {UNION {{<<p, mem[p][k][i].id, k, mem[p][k][i].text,
                         mem[p][k][i].timestamp>> : i \in 1..Len(mem[p][k])} :
                      k \in DOMAIN mem[p]} :
               p \in DOMAIN mem}

\* C16: append-only add with key isolation: the step in which stickNote(k,
\* text) ends adds exactly one record, with a fresh id, to group k of the
\* call's partition, and leaves every other record as it was.
C16_AppendOnlyAdd ==
  [][\A c \in CallIds :
       (calls[c].op = "stick" /\ calls[c].pc # "done" /\ calls'[c].pc = "done")
         => LET old == AllRecords(azure, memoryNotes)
                new == AllRecords(azure', memoryNotes')
            IN /\ old \subseteq new
               /\ Cardinality(new \ old) = 1
               /\ \A r \in new \ old :
                    /\ r[1] = calls[c].pk /\ r[3] = calls[c].key
                    /\ r[4] = calls[c].text
                    /\ \A x \in old : x[2] # r[2]]_vars

C18_ClearCount ==
  \A c \in CallIds :
    (Done(c) /\ calls[c].tool = "clearNotes" /\ calls[c].op = "clear")
      => calls[c].count = calls[c].deleted

\* the records of memoryNotes as entities of a table
AsTable(mem) ==
  UNION {UNION {{[partitionKey |-> p, rowKey |-> mem[p][k][i].id, noteKey |-> k,
                  text |-> mem[p][k][i].text,
                  timestamp |-> mem[p][k][i].timestamp] : i \in 1..Len(mem[p][k])} :
                k \in DOMAIN mem[p]} :
         p \in DOMAIN mem}

\* C19: identical backend semantics: on the same records, each of add,
\* get-latest, list-grouped and remove-by-key gives the same result and leaves
\* the same records whether memoryNotes serves it or a healthy table does.
C19_BackendsAgree ==
  LET table == AsTable(memoryNotes)
  IN \A pk \in DOMAIN memoryNotes :
       /\ getGroupedFromMemory(memoryNotes, pk) = listDurable(table, pk).groups
       /\ ~listDurable(table, pk).threw
       /\ \A k \in BoardKeys \cup {"r1"} :
            LET got == getLatestNoteFromMemory(memoryNotes, pk, k)
                gone == removeFromMemory(memoryNotes, pk, k)
            IN /\ ~got.threw
               /\ got.note = peelDurable(table, pk, k).note
               /\ gone.ok = (MatchKey(table, pk, k) # {})
               /\ AsTable(gone.mem) = table \ MatchKey(table, pk, k)
       /\ \A k \in BoardKeys, id \in RowKeys \ DOMAIN storedBy :
            LET put == saveNoteInMemory(memoryNotes, pk, k, "a", now, id)
            IN /\ ~put.threw
               /\ AsTable(put.mem) =
                    table \cup {[partitionKey |-> pk, rowKey |-> id, noteKey |-> k,
                                 text |-> "a", timestamp |-> now]}

\* C20: register before dispatch: whenever a message has been dispatched for
\* a session id, initialize included, the id was in the session table and
\* the message went through the transport that generated the id; every id
\* issued to a client and not closed since is in the table under that same
\* transport, and no transport is connected a second time.
C20_RegisterBeforeDispatch ==
  /\ \A e \in router.log :
       /\ e[1] \in transports \cup router.closed
       /\ router.sidOf[e[2]] = e[1]
  /\ \A s \in router.issued \ router.closed : s \in transports
  /\ \A s \in transports : router.sidOf[router.table[s]] = s
  /\ \A h \in DOMAIN router.connects : router.connects[h] = 1

\* C20 witness: a request carrying an issued session id has been dispatched
\* through the transport of that session while another initialization was
\* between server.connect and handleRequest
C20_Witness ==
  \E s \in router.issued, h \in DOMAIN router.stage :
    /\ s \in transports
    /\ <<s, router.table[s], "request">> \in router.log
    /\ router.stage[h] = "connecting"

\* the step answers a request (the answer differs from the one before)
Answers == router'.last # router.last

\* the request answered by the step carried no session id, or one under
\* which the session table held no transport when the request arrived
NoSuchSession ==
  router'.last.sid = Undefined \/ ~HasOwn(router.table, router'.last.sid)

\* C21: no implicit sessions: a POST that is not an initialization request, a
\* GET or a DELETE that carries no session id, or a session id absent from
\* the session table, is answered 400 and adds no entry to the table.
C21_NoImplicitSessions ==
  [][(Answers /\ router'.last.kind \in {"post", "get", "delete"} /\ NoSuchSession)
       => (router'.last.status = "400" /\ router'.table = router.table)]_vars

\* the step answers a request that carried a session id whose transport had
\* closed before
AfterClose == Answers /\ router'.last.sid \in router.closed

\* a closed session id is in the table neither before nor after the step,
\* and running the onclose handler again changes nothing
StaysClosed ==
  \A s \in router.closed :
    /\ ~HasOwn(router.table, s) /\ ~HasOwn(router'.table, s)
    /\ onclose(router, s) = router

\* C22 as stated: closed is terminal: a session id whose transport has closed
\* is out of the session table for good, a repeated close changes nothing,
\* and every later request carrying the id is rejected.
C22_ClosedIsTerminal ==
  [][StaysClosed /\ (AfterClose => router'.last.status = "400")]_vars

\* C22 as amended: the same, where the requests rejected are the GET, the
\* DELETE and every POST other than the two logging operations, which the
\* direct handler answers without reading the session id.
C22_ClosedIsTerminalRouted ==
  [][StaysClosed
     /\ ((AfterClose /\ router'.last.kind # "log")
           => (router'.last.status = "400" /\ router'.table = router.table))]_vars

\* C22 witness: a POST carrying the id of a session closed by DELETE has been
\* answered 400 while another session is open
C22_Witness ==
  /\ router.last.kind = "post"
  /\ router.last.sid \in router.closed
  /\ router.last.status = "400"
  /\ router.exit = "no"
  /\ transports # {}

\* C23: rejection has no side effect: a request answered 400 for a missing or
\* unknown session id leaves the session table, the note stores and the
\* cached tenant as they were.
C23_RejectionNoSideEffect ==
  [][(Answers /\ router'.last.status = "400")
       => /\ router'.table = router.table
          /\ transports' = transports
          /\ memoryNotes' = memoryNotes
          /\ azure' = azure
          /\ currentUserId' = currentUserId]_vars

\* C24: stateless logging operations: a logging/setLevel or logging/getLevel
\* POST is answered at once by the direct handler, with or without a session
\* id: no session is created, looked up or removed, no message is passed to
\* a transport, the cached tenant and the note stores stay as they are, and
\* a setLevel whose level (compared without regard to case, as the handler
\* compares it) is none of error, warn, info, debug, trace, off is answered
\* with the invalid-params error and leaves the level as it was.
C24_StatelessLogging ==
  [][(Answers /\ router'.last.kind = "log")
       => /\ router'.last.status \in {"result", "invalid"}
          /\ router'.table = router.table /\ router'.log = router.log
          /\ transports' = transports
          /\ currentUserId' = currentUserId
          /\ memoryNotes' = memoryNotes /\ azure' = azure
          /\ (/\ router'.last.arg[1] = "logging/setLevel"
              /\ toLowerCase(router'.last.arg[2]) \notin ValidLevels)
               => (router'.last.status = "invalid" /\ logLevel' = logLevel)]_vars

\* the tool call of slot c starts in this step
Starts(c) == calls[c].op = "idle" /\ calls'[c].op # "idle"

\* C25: tenant resolution order: a tool call resolves to the tenant already
\* fixed, if there is one, whatever the request carries; else to the hint of
\* its request; else to the pinned MCP_USER_ID; else to a newly generated
\* id; and the tenant it resolves to is the one cached afterwards.
C25_ResolutionOrder ==
  [][\A c \in CallIds :
       Starts(c)
         => /\ calls'[c].userId =
                 (IF currentUserId # Undefined THEN currentUserId
                  ELSE IF calls'[c].hint # Undefined THEN calls'[c].hint
                  ELSE IF envUserId # Undefined THEN envUserId
                  ELSE RandomUserId)
            /\ currentUserId' = calls'[c].userId]_vars

\* C26: tenant assigned once: when no request carries a hint, the cached
\* tenant, once written, is never written with another value; every tool
\* call that has started resolved to it and has used its partition only.
C26_TenantAssignedOnce ==
  [][/\ currentUserId # Undefined => currentUserId' = currentUserId
     /\ \A c \in CallIds :
          calls'[c].op # "idle"
            => /\ currentUserId' # Undefined
               /\ calls'[c].userId = currentUserId'
               /\ calls'[c].pks = {<<"user", currentUserId'>>}]_vars

\* C26 witness: a peelNote of the second session has resolved to the tenant
\* that an earlier call cached, and has returned a note stored under it
C26_Witness ==
  \E c \in CallIds :
    /\ Done(c) /\ calls[c].sess = "s2" /\ calls[c].op = "peel"
    /\ calls[c].userId = currentUserId
    /\ calls[c].note # <<>>

\* C27: createdAt follows insertion order: whenever a record is inserted into
\* a store, every record the stores already hold for its partition has a
\* createdAt that is not later than the new record's, also when addNote
\* calls overlap.
C27_CreatedAtFollowsInsertion ==
  [][LET old == AllRecords(azure, memoryNotes)
         new == AllRecords(azure', memoryNotes')
     IN \A r \in new \ old :
          \A x \in old : x[1] = r[1] => x[5] <= r[5]]_vars

\* the add of slot c has returned after the in-memory store took its note
SavedInMemory(c) ==
  /\ Done(c) /\ calls[c].op = "stick"
  /\ calls[c].served = "memory" /\ ~calls[c].threw

\* the group of key under partition pk in the map mem, <<>> when there is none
GroupOf(mem, pk, key) ==
  IF HasOwn(mem, pk) /\ HasOwn(mem[pk], key) THEN mem[pk][key] ELSE <<>>

\* the call of slot c ends in this step, served by the in-memory store
EndsInMemory(c) ==
  /\ calls[c].op # "idle" /\ calls[c].pc # "done"
  /\ calls'[c].pc = "done" /\ calls'[c].served = "memory" /\ ~calls'[c].threw

\* C28: no lost update in the fallback map: an add taken by the in-memory
\* store appends its note to the group and keeps every note the group held,
\* however the calls overlap, so two overlapping adds both end up in the
\* group, each once; no group is ever left empty, a get or list served from
\* memory returns only whole records the map holds at that moment, and a
\* remove takes the whole group.
C28_NoLostUpdate ==
  [][/\ \A c \in CallIds :
          EndsInMemory(c)
            => LET pk == calls[c].pk
                   key == calls[c].key
                   before == GroupOf(memoryNotes, pk, key)
                   after == GroupOf(memoryNotes', pk, key)
               IN CASE calls[c].op = "stick" ->
                         /\ after = Append(before, calls'[c].note[1])
                         /\ \A i \in 1..Len(before) :
                              before[i].id # calls'[c].note[1].id
                    [] calls[c].op = "peel" ->
                         calls'[c].note # <<>>
                           => \E i \in 1..Len(before) : before[i] = calls'[c].note[1]
                    [] calls[c].op = "list" ->
                         \A g \in {calls'[c].groups[j] : j \in 1..Len(calls'[c].groups)} :
                           g.items # <<>>
                           /\ \A i \in 1..Len(g.items) :
                                \E n \in 1..Len(GroupOf(memoryNotes, pk, g.key)) :
                                  GroupOf(memoryNotes, pk, g.key)[n].id = g.items[i].id
                    [] OTHER -> after = <<>>
     /\ \A pk \in DOMAIN memoryNotes' :
          \A k \in DOMAIN memoryNotes'[pk] : memoryNotes'[pk][k] # <<>>]_vars

\* C28 witness: two adds to one key overlapped (the one that started in the
\* earlier millisecond was saved second) and both have returned
C28_Witness ==
  \E c \in CallIds, d \in CallIds :
    /\ c # d /\ SavedInMemory(c) /\ SavedInMemory(d)
    /\ calls[c].pk = calls[d].pk /\ calls[c].key = calls[d].key
    /\ calls[c].ts < calls[d].ts
    /\ memoryNotes[calls[c].pk][calls[c].key] = <<calls[d].note[1], calls[c].note[1]>>

\* C29: an initialization POST that carries a session id absent from the
\* session table is answered 400 and creates no session; a transport, and
\* with it a session, is created only while an initialization POST without
\* session id is handled.
C29_InitWithUnknownSession ==
  [][/\ (/\ Answers /\ router'.last.kind = "init"
         /\ router'.last.sid # Undefined
         /\ ~HasOwn(router.table, router'.last.sid))
          => /\ router'.last.status = "400"
             /\ router'.table = router.table
             /\ router'.made = router.made
     /\ router'.made # router.made
          => (router'.last.kind = "init" /\ router'.last.sid = Undefined)
     /\ \A sid \in DOMAIN router'.table \ DOMAIN router.table :
          router.stage[router'.table[sid]] = "connecting"]_vars

\* the getNote tool on the groups listNotesData returned:
\* grouped.find(g => g.key === noteKey), then its first item; <<>> when it
\* reports that no note was found
getNote(groups, noteKey) ==
  LET found == {i \in 1..Len(groups) : groups[i].key = noteKey}
  IN IF found = {} THEN <<>>
     ELSE LET group == groups[CHOOSE i \in found : \A j \in found : i <= j]
          IN IF group.items = <<>> THEN <<>> ELSE <<group.items[1]>>

\* peelNote(k) run alone in the current state ends in an exception
PeelThrowsNow(pk, k) ==
  ~DataOk(tableClient) /\ getLatestNoteFromMemory(memoryNotes, pk, k).threw

\* the partitions that hold a record in either store
Partitions == DOMAIN memoryNotes \cup {e.partitionKey : e \in azure}

\* C30: the two read paths agree on the latest note: in every store state
\* and for every key k, peelNote(k) returns the first item of the group the
\* getNote tool selects for k out of listNotesData, and returns null exactly
\* when getNote reports that no note was found.
C30_ReadPathsAgree ==
  \A pk \in Partitions :
    \A k \in BoardKeys \cup {"r1"} :
      /\ ~PeelThrowsNow(pk, k)
      /\ PeelNow(pk, k) = getNote(ListNow(pk), k)

====
